---- MODULE Spec2Model ----
(***************************************************************************)
(* Model of the config manager of vault-plugin-secrets-oauthapp            *)
(* (pkg/backend/path_config.go) together with the mock provider factory    *)
(* of pkg/testutil.  Handlers run on concurrent request threads; the       *)
(* cache, reset and the background schedulers follow the design document.  *)
(***************************************************************************)
EXTENDS Integers, Sequences, FiniteSets, TLC

VARIABLES
    store,      \* the Store: key -> value, keys <<"config">> and <<"creds", name>>
    cache,      \* b.cache: <<>> or <<bundle>>
    mut,        \* b.mut: 0 when free, else the thread inside reset
    pc,         \* per request thread: position inside a config update/delete
    sched,      \* the two background schedulers
    cfgGen,     \* number of ConfigEntry generations written or deleted so far
    retGen,     \* highest generation whose update/delete has returned
    last,       \* the operation that completed last and its response
    fin,        \* input of a direct factory call
    fout,       \* outcome of that call: <<>> before, <<outcome>> after
    fn,         \* mockExchangeConfig.fn: the exchange function of the client
    count,      \* the call counter the exchange function closes over
    calls,      \* the codes the exchange function has been called with
    refresh,    \* mock.refresh: refresh token -> code it was issued for
    now         \* the wall clock, in seconds

exchVars == <<fn, count, calls, refresh, now>>

vars == <<store, cache, mut, pc, sched, cfgGen, retGen, last, fin, fout, exchVars>>

----------------------------------------------------------------------------
(* Bounds *)

NumThreads == 2
MaxGen == 2
MaxRefresh == 1
MaxCalls == 3
MaxTicks == 2

Threads == 1..NumThreads
Names == {"alice", "bob"}
Kinds == {"refresh", "reap"}

----------------------------------------------------------------------------
(* Maps (Go map[string]string) and the Store *)

EmptyMap == [k \in {} |-> ""]

Put(m, k, v) == [x \in DOMAIN m \cup {k} |-> IF x = k THEN v ELSE m[x]]

Delete(m, k) == [x \in DOMAIN m \ {k} |-> m[x]]

ConfigKey == <<"config">>

CredKey(n) == <<"creds", n>>

CredKeys == {CredKey(n) : n \in Names}

ReadConfig(s) == IF ConfigKey \in DOMAIN s THEN <<s[ConfigKey]>> ELSE <<>>

WriteConfig(s, c) == Put(s, ConfigKey, c)

DeleteConfig(s) == Delete(s, ConfigKey)

Creds(s) == [k \in DOMAIN s \cap CredKeys |-> s[k]]

----------------------------------------------------------------------------
(* Responses of logical operations *)

NilResponse == [kind |-> "nil", msg |-> <<>>, data |-> <<>>]

ErrorResponse(msg) == [kind |-> "error_response", msg |-> msg, data |-> <<>>]

FatalError(msg) == [kind |-> "error", msg |-> msg, data |-> <<>>]

DataResponse(d) == [kind |-> "data", msg |-> <<>>, data |-> <<d>>]

----------------------------------------------------------------------------
(* The mock provider factory *)

VersionLatest == -1

OptKeys == {"k1", "k2", "z"}
OptVals == {"v", "w"}
OptionMaps == UNION {[S -> OptVals] : S \in SUBSET OptKeys}

\* A mock as MockFactory(opts...) leaves it: MockWithVersion(1) first, then opts.
MockPlain == [vsn |-> 1, expectedOpts |-> EmptyMap]
MockOpt == [vsn |-> 2, expectedOpts |-> [k \in {"k1", "k2"} |-> "v"]]

OptionError(k, message, opts) ==
    [err |-> "OptionError", option |-> k, message |-> message,
     provider |-> <<>>, options |-> opts]

\* `for k := range options { return ... "unexpected" }`, then the provider.
FactoryRest(m, opts) ==
    IF DOMAIN opts # {}
    THEN {OptionError(k, <<"unexpected">>, opts) : k \in DOMAIN opts}
    ELSE {[err |-> "", option |-> "", message |-> <<>>,
           provider |-> <<[owner |-> m]>>, options |-> opts]}

\* `for k, ev := range m.expectedOpts`: Go iterates a map in an unspecified
\* order, so every order of the keys still to visit is a possible run.  Keys
\* already visited have been deleted from the caller's map.
RECURSIVE FactoryLoop(_, _, _)
FactoryLoop(m, todo, opts) ==
    IF todo = {}
    THEN FactoryRest(m, opts)
    ELSE UNION {
        IF k \notin DOMAIN opts
        THEN {OptionError(k, <<"not found">>, opts)}
        ELSE IF opts[k] # m.expectedOpts[k]
        THEN {OptionError(k, <<"expected", m.expectedOpts[k], "got", opts[k]>>, opts)}
        ELSE FactoryLoop(m, todo \ {k}, Delete(opts, k))
        : k \in todo}

FactoryNoUnexpectedCheck(m, vsn, options) ==
    IF vsn # VersionLatest /\ vsn # m.vsn
    THEN {[err |-> "ErrNoProviderWithVersion", option |-> "", message |-> <<>>,
           provider |-> <<>>, options |-> options]}
    ELSE {IF o.err = "OptionError" /\ o.message = <<"unexpected">>
          THEN [o EXCEPT !.err = "", !.option = "", !.message = <<>>,
                         !.provider = <<[owner |-> m]>>]
          ELSE o : o \in FactoryLoop(m, DOMAIN m.expectedOpts, options)}

\* mock.factory without its version switch.
FactoryAnyVersion(m, vsn, options) ==
    FactoryLoop(m, DOMAIN m.expectedOpts, options)

\* mock.factory: the set of outcomes a call can have; `options` of an outcome
\* is the caller's map as the call leaves it.
Factory(m, vsn, options) ==
    IF vsn # VersionLatest /\ vsn # m.vsn
    THEN {[err |-> "ErrNoProviderWithVersion", option |-> "", message |-> <<>>,
           provider |-> <<>>, options |-> options]}
    ELSE FactoryLoop(m, DOMAIN m.expectedOpts, options)

Version(p) == p.owner.vsn

----------------------------------------------------------------------------
(* The mock exchange functions *)

TickSeconds == 3600

\* A token counts as expired from ExpiryDelta seconds before its expiry.
ExpiryDelta == 10

\* Token.Valid at the instant `at`; Expiry is <<>> when unset.
Valid(t, at) ==
    /\ t.AccessToken # <<>>
    /\ t.Expiry = <<>> \/ t.Expiry[1] - ExpiryDelta >= at

RetrieveError == "oauth2.RetrieveError"
StepError == "step"

\* exchanges[client] of a client no exchange is registered for.
NilFunc == [kind |-> "nil"]

ErrorMockExchange == [kind |-> "error"]

IncrementMockExchange(prefix) == [kind |-> "increment", prefix |-> prefix]

ExpiringMockExchange(f, duration) ==
    [kind |-> "expiring", fn |-> f, duration |-> duration]

\* step(i) is durations[i] (the last one from then on) and fails at call
\* failAt; refreshToken stands for the randomToken(40) of the closure.
RefreshableMockExchange(f, durations, failAt) ==
    [kind |-> "refreshable", fn |-> f, durations |-> durations, failAt |-> failAt,
     refreshToken |-> "efgh"]

RestrictMockExchange(m) == [kind |-> "restrict", m |-> m]

Failed(err, n) == [err |-> <<err>>, token |-> <<>>, n |-> n]

\* fn(code) called at the instant `at` when the closures' counters stand at n
\* (the counters of IncrementMockExchange and of RefreshableMockExchange
\* around it advance together): the error or the token, and the counters.
RECURSIVE Call(_, _, _, _)
Call(f, code, n, at) ==
    CASE f.kind = "error" -> Failed(RetrieveError, n)
      [] f.kind = "increment" ->
            [err |-> <<>>,
             token |-> <<[AccessToken |-> <<f.prefix, n + 1>>,
                          RefreshToken |-> "", Expiry |-> <<>>]>>,
             n |-> n + 1]
      [] f.kind = "expiring" ->
            LET r == Call(f.fn, code, n, at)
            IN IF r.err # <<>> THEN r
               ELSE [r EXCEPT !.token[1].Expiry = <<at + f.duration>>]
      [] f.kind = "refreshable" ->
            LET r == Call(f.fn, code, n, at)
                i == IF r.n > Len(f.durations) THEN Len(f.durations) ELSE r.n
            IN IF r.err # <<>> THEN r
               ELSE IF r.n = f.failAt THEN Failed(StepError, r.n)
               ELSE [r EXCEPT !.token[1].RefreshToken = f.refreshToken,
                              !.token[1].Expiry = <<at + f.durations[i]>>]
      [] f.kind = "restrict" ->
            IF code \notin DOMAIN f.m THEN Failed(RetrieveError, n)
            ELSE Call(f.m[code], code, n, at)

\* No exchange has been registered or made.
NoExchange ==
    /\ fn = NilFunc
    /\ count = 0
    /\ calls = <<>>
    /\ refresh = EmptyMap
    /\ now = 0

----------------------------------------------------------------------------
(* The provider registry *)

Registry == [mock |-> MockPlain, mockopt |-> MockOpt]

RegistryNewAt(name, vsn, options) ==
    IF name \notin DOMAIN Registry
    THEN {[err |-> "ErrNoSuchProvider", option |-> "", message |-> <<>>,
           provider |-> <<>>, options |-> options]}
    ELSE Factory(Registry[name], vsn, options)

RegistryNew(name, options) == RegistryNewAt(name, VersionLatest, options)

\* errmark.MarkedUser(err): option errors are the caller's mistake.
MarkedUser(o) == o.err = "OptionError"

\* errmark.MarkShort(err).Error()
ErrorText(o) == <<"option", o.option>> \o o.message

----------------------------------------------------------------------------
(* ConfigEntry and the request fields of a config update *)

ConfigVersionLatest == 2

\* Factors are float64 in the code; the model counts them in tenths, so 1.0
\* is FactorOne.
FactorOne == 10

RefreshCheckIntervalMax == 90 * 24 * 3600
ReapCheckIntervalMax == 180 * 24 * 3600

BaseTuning ==
    [ProviderTimeoutSeconds |-> 30,
     ProviderTimeoutExpiryLeewayFactor |-> 15,
     RefreshCheckIntervalSeconds |-> 60,
     RefreshExpiryDeltaFactor |-> 12,
     ReapCheckIntervalSeconds |-> 300,
     ReapDryRun |-> FALSE,
     ReapNonRefreshableSeconds |-> 86400,
     ReapRevokedSeconds |-> 3600,
     ReapTransientErrorAttempts |-> 10,
     ReapTransientErrorSeconds |-> 7200]

\* Every tuning value differs from BaseTuning; the reaper only reports.
AltTuning ==
    [ProviderTimeoutSeconds |-> 0,
     ProviderTimeoutExpiryLeewayFactor |-> 20,
     RefreshCheckIntervalSeconds |-> 0,
     RefreshExpiryDeltaFactor |-> 50,
     ReapCheckIntervalSeconds |-> 1,
     ReapDryRun |-> TRUE,
     ReapNonRefreshableSeconds |-> 0,
     ReapRevokedSeconds |-> 1,
     ReapTransientErrorAttempts |-> 3,
     ReapTransientErrorSeconds |-> 10]

\* Each constrained value exactly on its bound or one step beyond it.
AllEdgeTunings ==
    {[BaseTuning EXCEPT
        !.ProviderTimeoutExpiryLeewayFactor = l,
        !.RefreshCheckIntervalSeconds = r,
        !.RefreshExpiryDeltaFactor = d,
        !.ReapCheckIntervalSeconds = p,
        !.ReapTransientErrorAttempts = a] :
      l \in {FactorOne - 1, FactorOne},
      r \in {RefreshCheckIntervalMax, RefreshCheckIntervalMax + 1},
      d \in {FactorOne - 1, FactorOne},
      p \in {ReapCheckIntervalMax, ReapCheckIntervalMax + 1},
      a \in {-1, 0}}

\* Those with at most one value beyond its bound, or with all of them, or with
\* the first two.
EdgeTunings ==
    {t \in AllEdgeTunings :
        LET beyond ==
              (IF t.ProviderTimeoutExpiryLeewayFactor < FactorOne THEN 1 ELSE 0)
            + (IF t.RefreshCheckIntervalSeconds > RefreshCheckIntervalMax THEN 1 ELSE 0)
            + (IF t.RefreshExpiryDeltaFactor < FactorOne THEN 1 ELSE 0)
            + (IF t.ReapCheckIntervalSeconds > ReapCheckIntervalMax THEN 1 ELSE 0)
            + (IF t.ReapTransientErrorAttempts < 0 THEN 1 ELSE 0)
        IN \/ beyond \in {0, 1, 5}
           \/ /\ beyond = 2
              /\ t.RefreshCheckIntervalSeconds > RefreshCheckIntervalMax
              /\ t.RefreshExpiryDeltaFactor < FactorOne}

Tunings == {BaseTuning, AltTuning} \cup EdgeTunings

\* data.GetOk: <<>> when the field is absent from the request.
BaseRequest ==
    [client_id |-> <<"foo">>,
     client_secret |-> "bar",
     auth_url_params |-> EmptyMap,
     provider |-> <<"mock">>,
     provider_options |-> EmptyMap,
     tuning |-> BaseTuning]

UpdateRequests ==
    {[BaseRequest EXCEPT !.client_id = c] : c \in {<<>>, <<"foo">>, <<"baz">>}}
    \cup {[BaseRequest EXCEPT !.auth_url_params = [k \in {"audience"} |-> "x"]]}
    \cup {[BaseRequest EXCEPT !.provider = p] : p \in {<<>>, <<"nope">>}}
    \cup {[BaseRequest EXCEPT !.provider_options = [k \in {"z"} |-> "v"]]}
    \cup {[BaseRequest EXCEPT !.provider = <<"mockopt">>, !.provider_options = o] :
            o \in {m \in OptionMaps : \A k \in DOMAIN m : m[k] = "v" \/ k = "k1"}}
    \cup {[BaseRequest EXCEPT !.tuning = t] : t \in Tunings}

NewConfigEntryLatest(req, p, providerOptions) ==
    [Version |-> ConfigVersionLatest,
     ClientID |-> req.client_id[1],
     ClientSecret |-> req.client_secret,
     AuthURLParams |-> req.auth_url_params,
     ProviderName |-> req.provider[1],
     ProviderVersion |-> VersionLatest,
     ProviderOptions |-> providerOptions,
     Tuning |-> req.tuning]

\* `c := &persistence.ConfigEntry{...}`; providerOptions is the map the
\* registry call was given, as that call left it.
NewConfigEntry(req, p, providerOptions) ==
    [Version |-> ConfigVersionLatest,
     ClientID |-> req.client_id[1],
     ClientSecret |-> req.client_secret,
     AuthURLParams |-> req.auth_url_params,
     ProviderName |-> req.provider[1],
     ProviderVersion |-> Version(p),
     ProviderOptions |-> providerOptions,
     Tuning |-> req.tuning]

TuningErrorStrict(t) ==
    IF t.ProviderTimeoutExpiryLeewayFactor <= FactorOne
    THEN <<"provider timeout expiry leeway factor must be at least 1.0">>
    ELSE IF t.RefreshCheckIntervalSeconds >= RefreshCheckIntervalMax
    THEN <<"refresh check interval can be at most 90 days">>
    ELSE IF t.RefreshExpiryDeltaFactor <= FactorOne
    THEN <<"refresh expiry delta factor must be at least 1.0">>
    ELSE IF t.ReapCheckIntervalSeconds >= ReapCheckIntervalMax
    THEN <<"reap check interval can be at most 180 days">>
    ELSE IF t.ReapTransientErrorAttempts <= 0
    THEN <<"reap transient error attempts cannot be negative">>
    ELSE <<>>

TuningErrorNone(t) == <<>>

\* "Sanity checks for tuning options": the message of the first failing
\* case of the switch, <<>> when none fails.
TuningError(t) ==
    IF t.ProviderTimeoutExpiryLeewayFactor < FactorOne
    THEN <<"provider timeout expiry leeway factor must be at least 1.0">>
    ELSE IF t.RefreshCheckIntervalSeconds > RefreshCheckIntervalMax
    THEN <<"refresh check interval can be at most 90 days">>
    ELSE IF t.RefreshExpiryDeltaFactor < FactorOne
    THEN <<"refresh expiry delta factor must be at least 1.0">>
    ELSE IF t.ReapCheckIntervalSeconds > ReapCheckIntervalMax
    THEN <<"reap check interval can be at most 180 days">>
    ELSE IF t.ReapTransientErrorAttempts < 0
    THEN <<"reap transient error attempts cannot be negative">>
    ELSE <<>>

\* configUpdateOperation up to the tuning checks: the possible results, each
\* the response of an early return, or the entry to write.
UpdateChecks(req) ==
    IF req.client_id = <<>>
    THEN {[resp |-> ErrorResponse(<<"missing client ID">>), entry |-> <<>>]}
    ELSE IF req.provider = <<>>
    THEN {[resp |-> ErrorResponse(<<"missing provider">>), entry |-> <<>>]}
    ELSE {IF o.err = "ErrNoSuchProvider"
          THEN [resp |-> ErrorResponse(<<"provider does not exist", req.provider[1]>>),
                entry |-> <<>>]
          ELSE IF MarkedUser(o)
          THEN [resp |-> ErrorResponse(ErrorText(o)), entry |-> <<>>]
          ELSE IF o.err # ""
          THEN [resp |-> FatalError(<<o.err>>), entry |-> <<>>]
          ELSE IF TuningError(req.tuning) # <<>>
          THEN [resp |-> ErrorResponse(TuningError(req.tuning)), entry |-> <<>>]
          ELSE [resp |-> NilResponse,
                entry |-> <<NewConfigEntry(req, o.provider[1], o.options)>>]
          : o \in RegistryNew(req.provider[1], req.provider_options)}

\* The response data with the client secret among the fields.
ReadFieldsWithSecret(c) ==
    [client_id |-> c.ClientID,
     client_secret |-> c.ClientSecret,
     auth_url_params |-> c.AuthURLParams,
     provider |-> c.ProviderName,
     provider_version |-> c.ProviderVersion,
     provider_options |-> c.ProviderOptions,
     tune_provider_timeout_seconds |-> c.Tuning.ProviderTimeoutSeconds,
     tune_provider_timeout_expiry_leeway_factor |-> c.Tuning.ProviderTimeoutExpiryLeewayFactor,
     tune_refresh_check_interval_seconds |-> c.Tuning.RefreshCheckIntervalSeconds,
     tune_refresh_expiry_delta_factor |-> c.Tuning.RefreshExpiryDeltaFactor,
     tune_reap_check_interval_seconds |-> c.Tuning.ReapCheckIntervalSeconds,
     tune_reap_dry_run |-> c.Tuning.ReapDryRun,
     tune_reap_non_refreshable_seconds |-> c.Tuning.ReapNonRefreshableSeconds,
     tune_reap_revoked_seconds |-> c.Tuning.ReapRevokedSeconds,
     tune_reap_transient_error_attempts |-> c.Tuning.ReapTransientErrorAttempts,
     tune_reap_transient_error_seconds |-> c.Tuning.ReapTransientErrorSeconds]

\* The fields configReadOperation copies out of the cached config.
ReadFields(c) ==
    [client_id |-> c.ClientID,
     auth_url_params |-> c.AuthURLParams,
     provider |-> c.ProviderName,
     provider_version |-> c.ProviderVersion,
     provider_options |-> c.ProviderOptions,
     tune_provider_timeout_seconds |-> c.Tuning.ProviderTimeoutSeconds,
     tune_provider_timeout_expiry_leeway_factor |-> c.Tuning.ProviderTimeoutExpiryLeewayFactor,
     tune_refresh_check_interval_seconds |-> c.Tuning.RefreshCheckIntervalSeconds,
     tune_refresh_expiry_delta_factor |-> c.Tuning.RefreshExpiryDeltaFactor,
     tune_reap_check_interval_seconds |-> c.Tuning.ReapCheckIntervalSeconds,
     tune_reap_dry_run |-> c.Tuning.ReapDryRun,
     tune_reap_non_refreshable_seconds |-> c.Tuning.ReapNonRefreshableSeconds,
     tune_reap_revoked_seconds |-> c.Tuning.ReapRevokedSeconds,
     tune_reap_transient_error_attempts |-> c.Tuning.ReapTransientErrorAttempts,
     tune_reap_transient_error_seconds |-> c.Tuning.ReapTransientErrorSeconds]

----------------------------------------------------------------------------
(* The cache *)

\* newCache: the bundle {config, provider} built from a stored ConfigEntry
\* with the provider version and options the entry pins.
NewCache(cfg) ==
    {IF o.err # ""
     THEN [err |-> <<o.err>>, c |-> <<>>]
     ELSE [err |-> <<>>,
           c |-> <<[Config |-> [cfg EXCEPT !.ProviderOptions = o.options],
                    Provider |-> o.provider[1]]>>]
     : o \in RegistryNewAt(cfg.ProviderName, cfg.ProviderVersion, cfg.ProviderOptions)}

\* getCache: the live bundle, else one rebuilt from the Store; c = <<>> with
\* no error when the plugin is not configured.
GetCache(ch, s) ==
    IF ch # <<>>
    THEN {[err |-> <<>>, c |-> ch]}
    ELSE IF ReadConfig(s) = <<>>
    THEN {[err |-> <<>>, c |-> <<>>]}
    ELSE NewCache(ReadConfig(s)[1])

----------------------------------------------------------------------------
(* The background schedulers *)

Stopped == [state |-> "stopped", gen |-> 0, cancelled |-> FALSE,
            item |-> "", client |-> "", dry |-> FALSE]

Interval(k, cfg) ==
    IF k = "refresh"
    THEN cfg.Tuning.RefreshCheckIntervalSeconds
    ELSE cfg.Tuning.ReapCheckIntervalSeconds

\* A loop is started for the current ConfigEntry unless its interval is 0.
Launch(s, gen) ==
    [k \in Kinds |->
        IF ReadConfig(s) # <<>> /\ Interval(k, ReadConfig(s)[1]) > 0
        THEN [Stopped EXCEPT !.state = "sleeping", !.gen = gen]
        ELSE Stopped]

\* A sleeping loop ends as soon as it is cancelled; a loop that is working on
\* an item finishes that item first.
Cancel(sc) ==
    [k \in Kinds |-> IF sc[k].state = "working"
                     THEN [sc[k] EXCEPT !.cancelled = TRUE]
                     ELSE Stopped]

Locked(n) == \E k \in Kinds : sched[k].state = "working" /\ sched[k].item = n

\* A credential is due for the refresher while it can still be refreshed,
\* and for the reaper once it cannot.
Due(k, cred) ==
    IF k = "refresh" THEN cred.refreshes < MaxRefresh ELSE cred.refreshes >= MaxRefresh

----------------------------------------------------------------------------
(* Initial state *)

Idle == [loc |-> "idle", gen |-> 0, op |-> ""]

Done(op, resp) == [op |-> op, req |-> <<>>, resp |-> resp]

\* An update that returns early reports the request it refused.
Refused(req, resp) == [op |-> "config_update", req |-> <<req>>, resp |-> resp]

Init ==
    /\ store = [k \in {} |-> Idle]
    /\ cache = <<>>
    /\ mut = 0
    /\ pc = [t \in Threads |-> Idle]
    /\ sched = [k \in Kinds |-> Stopped]
    /\ cfgGen = 0
    /\ retGen = 0
    /\ last = Done("none", NilResponse)
    /\ fin = [m |-> MockPlain, vsn |-> VersionLatest, options |-> EmptyMap]
    /\ fout = <<>>
    /\ NoExchange

\* The host hands a config update or delete to the first thread that is not
\* inside one.
FreeThread(t) ==
    /\ pc[t].loc = "idle"
    /\ \A u \in Threads : u < t => pc[u].loc # "idle"

----------------------------------------------------------------------------
(* config: read *)

ReadResponse(r) ==
    IF r.err # <<>> THEN FatalError(r.err)
    ELSE IF r.c = <<>> THEN NilResponse
    ELSE DataResponse(ReadFields(r.c[1].Config))

ConfigRead ==
    /\ mut = 0
    /\ \E r \in GetCache(cache, store) :
        /\ cache' = r.c
        /\ last' = Done("config_read", ReadResponse(r))
    /\ UNCHANGED <<store, mut, pc, sched, cfgGen, retGen, fin, fout, exchVars>>

----------------------------------------------------------------------------
(* config: update *)

UpdateAfterWriteReturn == "idle"

\* After a successful WriteConfig the handler goes on to b.reset().
UpdateAfterWrite == "reset"

\* A thread that has written goes on to reset, or has returned.
Written(t, loc, op) ==
    /\ cfgGen' = cfgGen + 1
    /\ pc' = [pc EXCEPT ![t] = IF loc = "idle" THEN Idle
                               ELSE [loc |-> loc, gen |-> cfgGen + 1, op |-> op]]
    /\ retGen' = IF loc = "idle" THEN cfgGen + 1 ELSE retGen
    /\ last' = IF loc = "idle" THEN Done(op, NilResponse) ELSE last

\* storeOk is the outcome of WriteConfig; it is TRUE where the handler does
\* not get as far as calling it.
ConfigUpdate(t, req, storeOk) ==
    /\ FreeThread(t)
    /\ cfgGen < MaxGen
    /\ \E u \in UpdateChecks(req) :
        IF u.entry = <<>>
        THEN /\ storeOk
             /\ last' = Refused(req, u.resp)
             /\ UNCHANGED <<store, pc, cfgGen, retGen>>
        ELSE IF ~storeOk
        THEN /\ last' = Refused(req, FatalError(<<"store">>))
             /\ UNCHANGED <<store, pc, cfgGen, retGen>>
        ELSE /\ store' = WriteConfig(store, u.entry[1])
             /\ Written(t, UpdateAfterWrite, "config_update")
    /\ UNCHANGED <<cache, mut, sched, fin, fout, exchVars>>

----------------------------------------------------------------------------
(* config: delete *)

ConfigDeleteStoreAll(s) == [k \in {} |-> Idle]

\* b.data.Managers(req.Storage).Config().DeleteConfig(ctx)
ConfigDeleteStore(s) == DeleteConfig(s)

DeleteAfterWriteReturn == "idle"

\* After a successful DeleteConfig the handler goes on to b.reset().
DeleteAfterWrite == "reset"

ConfigDelete(t, storeOk) ==
    /\ FreeThread(t)
    /\ cfgGen < MaxGen
    /\ IF ~storeOk
       THEN /\ last' = Done("config_delete", FatalError(<<"store">>))
            /\ UNCHANGED <<store, pc, cfgGen, retGen>>
       ELSE /\ store' = ConfigDeleteStore(store)
            /\ Written(t, DeleteAfterWrite, "config_delete")
    /\ UNCHANGED <<cache, mut, sched, fin, fout, exchVars>>

----------------------------------------------------------------------------
(* reset: invalidate the cache, cancel the schedulers, wait for them, and
   relaunch them under the current ConfigEntry *)

ResetBegin(t) ==
    /\ pc[t].loc = "reset"
    /\ mut = 0
    /\ mut' = t
    /\ cache' = <<>>
    /\ sched' = Cancel(sched)
    /\ pc' = [pc EXCEPT ![t].loc = "relaunch"]
    /\ UNCHANGED <<store, cfgGen, retGen, last, fin, fout, exchVars>>

ResetEnd(t) ==
    /\ pc[t].loc = "relaunch"
    /\ mut = t
    /\ \A k \in Kinds : sched[k].state = "stopped"
    /\ sched' = Launch(store, cfgGen)
    /\ mut' = 0
    /\ pc' = [pc EXCEPT ![t] = Idle]
    /\ retGen' = IF pc[t].gen > retGen THEN pc[t].gen ELSE retGen
    /\ last' = Done(pc[t].op, NilResponse)
    /\ UNCHANGED <<store, cache, cfgGen, fin, fout, exchVars>>

----------------------------------------------------------------------------
(* config/auth_code_url: update *)

MockAuthCodeURL == "http://localhost/authorize"

RECURSIVE JoinScopes(_)
JoinScopes(scopes) ==
    IF Len(scopes) = 0 THEN ""
    ELSE IF Len(scopes) = 1 THEN scopes[1]
    ELSE scopes[1] \o " " \o JoinScopes(Tail(scopes))

\* url.Values.Set for every pair of params.
SetAll(q, params) ==
    [k \in DOMAIN q \cup DOMAIN params |-> IF k \in DOMAIN params THEN params[k] ELSE q[k]]

\* The authorization code URL of an endpoint that conforms to RFC 6749: the
\* standard parameters first, then the URL parameters in the order given.
AuthCodeURL(clientID, state, redirectURL, scopes, reqParams, cfgParams) ==
    LET q0 == [k \in {"response_type", "client_id", "state"} |->
                IF k = "response_type" THEN "code"
                ELSE IF k = "client_id" THEN clientID ELSE state]
        q1 == IF redirectURL = "" THEN q0 ELSE SetAll(q0, [k \in {"redirect_uri"} |-> redirectURL])
        q2 == IF Len(scopes) = 0 THEN q1 ELSE SetAll(q1, [k \in {"scope"} |-> JoinScopes(scopes)])
    IN [ok |-> TRUE,
        url |-> [endpoint |-> MockAuthCodeURL, query |-> SetAll(SetAll(q2, reqParams), cfgParams)]]

BaseURLRequest ==
    [state |-> <<"s">>,
     redirect_url |-> "http://example.com/redirect",
     scopes |-> <<"a", "b", "c">>,
     auth_url_params |-> [k \in {"baz"} |-> "quux"]]

URLRequests ==
    {BaseURLRequest,
     [BaseURLRequest EXCEPT !.state = <<>>],
     [BaseURLRequest EXCEPT !.scopes = <<>>, !.redirect_url = "", !.auth_url_params = EmptyMap]}

\* Requests whose URL parameters meet a configured parameter or a standard one.
AuthURLRequests ==
    URLRequests \cup
    {[BaseURLRequest EXCEPT !.auth_url_params = [k \in {"audience", "prompt"} |->
                                                    IF k = "audience" THEN "y" ELSE "login"]],
     [BaseURLRequest EXCEPT !.auth_url_params = [k \in {"audience"} |-> "x"]],
     [BaseURLRequest EXCEPT !.auth_url_params = [k \in {"state"} |-> "t"]]}

\* The handler without provider.WithURLParams(c.Config.AuthURLParams).
AuthCodeURLResponseNoConfigParams(r, req) ==
    IF r.err # <<>> THEN FatalError(r.err)
    ELSE IF r.c = <<>> THEN ErrorResponse(<<"not configured">>)
    ELSE IF req.state = <<>> THEN ErrorResponse(<<"missing state">>)
    ELSE LET u == AuthCodeURL(r.c[1].Config.ClientID, req.state[1], req.redirect_url,
                              req.scopes, req.auth_url_params, EmptyMap)
         IN IF ~u.ok THEN ErrorResponse(<<"authorization code URL not available">>)
            ELSE DataResponse([url |-> u.url])

AuthCodeURLResponse(r, req) ==
    IF r.err # <<>> THEN FatalError(r.err)
    ELSE IF r.c = <<>> THEN ErrorResponse(<<"not configured">>)
    ELSE IF req.state = <<>> THEN ErrorResponse(<<"missing state">>)
    ELSE LET u == AuthCodeURL(r.c[1].Config.ClientID, req.state[1], req.redirect_url,
                              req.scopes, req.auth_url_params, r.c[1].Config.AuthURLParams)
         IN IF ~u.ok THEN ErrorResponse(<<"authorization code URL not available">>)
            ELSE DataResponse([url |-> u.url])

ConfigAuthCodeURL(req) ==
    /\ mut = 0
    /\ \E r \in GetCache(cache, store) :
        /\ cache' = r.c
        /\ last' = Done("auth_code_url", AuthCodeURLResponse(r, req))
    /\ UNCHANGED <<store, mut, pc, sched, cfgGen, retGen, fin, fout, exchVars>>

----------------------------------------------------------------------------
(* creds/<name>: write (authorization code exchange) *)

CredWrite(n) ==
    /\ mut = 0
    /\ ~Locked(n)
    /\ \E r \in GetCache(cache, store) :
        /\ cache' = r.c
        /\ IF r.err # <<>>
           THEN last' = Done("cred_write", FatalError(r.err)) /\ store' = store
           ELSE IF r.c = <<>>
           THEN /\ last' = Done("cred_write", ErrorResponse(<<"not configured">>))
                /\ store' = store
           ELSE /\ last' = Done("cred_write", NilResponse)
                /\ store' = Put(store, CredKey(n),
                                [client |-> r.c[1].Config.ClientID, refreshes |-> 0])
    /\ UNCHANGED <<mut, pc, sched, cfgGen, retGen, fin, fout, exchVars>>

----------------------------------------------------------------------------
(* Scheduler iterations *)

SchedBegin(k, n) ==
    /\ sched[k].state = "sleeping"
    /\ mut = 0
    /\ ~Locked(n)
    /\ CredKey(n) \in DOMAIN store
    /\ Due(k, store[CredKey(n)])
    /\ \E r \in GetCache(cache, store) :
        /\ r.c # <<>>
        /\ cache' = r.c
        /\ sched' = [sched EXCEPT ![k].state = "working", ![k].item = n,
                                  ![k].client = r.c[1].Config.ClientID,
                                  ![k].dry = r.c[1].Config.Tuning.ReapDryRun]
    /\ UNCHANGED <<store, mut, pc, cfgGen, retGen, last, fin, fout, exchVars>>

SchedFinish(k) ==
    /\ sched[k].state = "working"
    /\ LET key == CredKey(sched[k].item) IN
        store' = IF k = "refresh"
                 THEN Put(store, key, [client |-> sched[k].client,
                                       refreshes |-> store[key].refreshes + 1])
                 ELSE IF sched[k].dry THEN store
                 ELSE Delete(store, key)
    /\ sched' = [sched EXCEPT ![k] =
                    IF sched[k].cancelled THEN Stopped
                    ELSE [Stopped EXCEPT !.state = "sleeping", !.gen = sched[k].gen]]
    /\ last' = Done("sched_" \o k, NilResponse)
    /\ UNCHANGED <<cache, mut, pc, cfgGen, retGen, fin, fout, exchVars>>

----------------------------------------------------------------------------
(* Specification of the backend *)

\* The config paths on a mount where no credential is ever written, so that
\* the scheduler loops find nothing to do.
Next ==
    \/ ConfigRead
    \/ \E t \in Threads, req \in UpdateRequests, ok \in BOOLEAN : ConfigUpdate(t, req, ok)
    \/ \E t \in Threads, ok \in BOOLEAN : ConfigDelete(t, ok)
    \/ \E t \in Threads : ResetBegin(t)
    \/ \E t \in Threads : ResetEnd(t)
    \/ \E req \in URLRequests : ConfigAuthCodeURL(req)

Spec == Init /\ [][Next]_vars

\* The config paths together with credentials and the scheduler loops, for a
\* few config updates.
SchedRequests ==
    {BaseRequest,
     [BaseRequest EXCEPT !.client_id = <<"baz">>],
     [BaseRequest EXCEPT !.tuning = AltTuning],
     [BaseRequest EXCEPT !.tuning.RefreshExpiryDeltaFactor = FactorOne - 1]}

NextSched ==
    \/ ConfigRead
    \/ \E t \in Threads, req \in SchedRequests, ok \in BOOLEAN : ConfigUpdate(t, req, ok)
    \/ \E t \in Threads, ok \in BOOLEAN : ConfigDelete(t, ok)
    \/ \E t \in Threads : ResetBegin(t)
    \/ \E t \in Threads : ResetEnd(t)
    \/ ConfigAuthCodeURL(BaseURLRequest)
    \/ \E n \in Names : CredWrite(n)
    \/ \E k \in Kinds, n \in Names : SchedBegin(k, n)
    \/ \E k \in Kinds : SchedFinish(k)

SpecSched == Init /\ [][NextSched]_vars

\* The config paths with client secrets that differ from every other value
\* of a request.
Secrets == {"bar", "qux"}

SecretRequests ==
    {[r EXCEPT !.client_secret = sec] :
        r \in {BaseRequest,
               [BaseRequest EXCEPT !.auth_url_params = [k \in {"audience"} |-> "x"]],
               [BaseRequest EXCEPT !.provider = <<"mockopt">>,
                                   !.provider_options = MockOpt.expectedOpts],
               [BaseRequest EXCEPT !.tuning = AltTuning]},
        sec \in Secrets}

NextSecret ==
    \/ ConfigRead
    \/ \E t \in Threads, req \in SecretRequests, ok \in BOOLEAN : ConfigUpdate(t, req, ok)
    \/ \E t \in Threads, ok \in BOOLEAN : ConfigDelete(t, ok)
    \/ \E t \in Threads : ResetBegin(t)
    \/ \E t \in Threads : ResetEnd(t)

SpecSecret == Init /\ [][NextSecret]_vars

\* The config paths with authorization code URLs asked for under configured
\* URL parameters.
URLConfigRequests ==
    {BaseRequest,
     [BaseRequest EXCEPT !.auth_url_params = [k \in {"audience"} |-> "x"]],
     [BaseRequest EXCEPT !.client_id = <<"baz">>,
                         !.auth_url_params = [k \in {"audience", "scope"} |->
                                                 IF k = "audience" THEN "x" ELSE "all"]]}

NextURL ==
    \/ ConfigRead
    \/ \E t \in Threads, req \in URLConfigRequests, ok \in BOOLEAN : ConfigUpdate(t, req, ok)
    \/ \E t \in Threads, ok \in BOOLEAN : ConfigDelete(t, ok)
    \/ \E t \in Threads : ResetBegin(t)
    \/ \E t \in Threads : ResetEnd(t)
    \/ \E req \in AuthURLRequests : ConfigAuthCodeURL(req)

SpecURL == Init /\ [][NextURL]_vars

----------------------------------------------------------------------------
(* Specification of direct calls of the mock factory *)

FactoryInputs ==
    [m : {MockPlain, MockOpt}, vsn : {VersionLatest, 0, 1, 2, 3}, options : OptionMaps]

InitFactory ==
    /\ store = [k \in {} |-> Idle]
    /\ cache = <<>>
    /\ mut = 0
    /\ pc = [t \in Threads |-> Idle]
    /\ sched = [k \in Kinds |-> Stopped]
    /\ cfgGen = 0
    /\ retGen = 0
    /\ last = Done("none", NilResponse)
    /\ fin \in FactoryInputs
    /\ fout = <<>>
    /\ NoExchange

\* A first call with the input, then a second call with the same version and
\* the options map as the first call left it.
FactoryCall ==
    /\ Len(fout) < 2
    /\ \E o \in Factory(fin.m, fin.vsn,
                        IF fout = <<>> THEN fin.options ELSE fout[1].options) :
        fout' = Append(fout, o)
    /\ UNCHANGED <<store, cache, mut, pc, sched, cfgGen, retGen, last, fin, exchVars>>

NextFactory == FactoryCall

SpecFactory == InitFactory /\ [][NextFactory]_vars

----------------------------------------------------------------------------
(* Specification of the mock exchange configuration *)

Codes == {"123456", "654321"}

\* The exchange functions a test registers for the client.
ExchangeFuncs ==
    {NilFunc, ErrorMockExchange,
     ExpiringMockExchange(IncrementMockExchange("tok"), TickSeconds)}
    \cup {RefreshableMockExchange(IncrementMockExchange("tok"), d, f) :
            d \in {<<5, TickSeconds>>, <<TickSeconds, 5>>}, f \in {0, 2}}
    \cup {RestrictMockExchange([c \in {"123456"} |->
            RefreshableMockExchange(IncrementMockExchange("tok"), <<5, TickSeconds>>, 0)])}

\* A token as a refresh-token seed leaves it: no access token, expired.
SeedToken == [AccessToken |-> <<>>, RefreshToken |-> "seed", Expiry |-> <<0 - TickSeconds>>]

TokenResponse(t) == [kind |-> "token", msg |-> <<>>, data |-> <<t>>]

\* The tokens a caller can hand to Refresh.
HeldTokens ==
    {SeedToken} \cup (IF last.resp.kind = "token" THEN {last.resp.data[1]} ELSE {})

InitExchange ==
    /\ store = [k \in {} |-> Idle]
    /\ cache = <<>>
    /\ mut = 0
    /\ pc = [t \in Threads |-> Idle]
    /\ sched = [k \in Kinds |-> Stopped]
    /\ cfgGen = 0
    /\ retGen = 0
    /\ last = Done("none", NilResponse)
    /\ fin = [m |-> MockPlain, vsn |-> VersionLatest, options |-> EmptyMap]
    /\ fout = <<>>
    /\ fn \in ExchangeFuncs
    /\ count = 0
    /\ calls = <<>>
    /\ refresh = EmptyMap
    /\ now = 0

Returned(op, in, resp) == [op |-> op, req |-> <<in>>, resp |-> resp]

\* mockExchangeConfig.Exchange
Exchange(code) ==
    /\ Len(calls) < MaxCalls
    /\ IF fn = NilFunc
       THEN /\ last' = Returned("exchange", [code |-> code], FatalError(<<RetrieveError>>))
            /\ UNCHANGED <<count, calls, refresh>>
       ELSE LET r == Call(fn, code, count, now)
            IN /\ calls' = Append(calls, code)
               /\ count' = r.n
               /\ IF r.err # <<>>
                  THEN /\ last' = Returned("exchange", [code |-> code], FatalError(r.err))
                       /\ refresh' = refresh
                  ELSE /\ refresh' = IF r.token[1].RefreshToken # ""
                                     THEN Put(refresh, r.token[1].RefreshToken, code)
                                     ELSE refresh
                       /\ last' = Returned("exchange", [code |-> code], TokenResponse(r.token[1]))
    /\ UNCHANGED <<store, cache, mut, pc, sched, cfgGen, retGen, fin, fout, fn, now>>

\* Refresh without the `if t.Valid()` return.
RefreshNoValidCheck(t) ==
    /\ Len(calls) < MaxCalls
    /\ IF t.RefreshToken = "" \/ fn = NilFunc \/ t.RefreshToken \notin DOMAIN refresh
       THEN /\ last' = Returned("refresh", t, TokenResponse(t))
            /\ UNCHANGED <<count, calls>>
       ELSE LET r == Call(fn, refresh[t.RefreshToken], count, now)
            IN /\ calls' = Append(calls, refresh[t.RefreshToken])
               /\ count' = r.n
               /\ last' = Returned("refresh", t,
                                   IF r.err # <<>> THEN FatalError(r.err)
                                   ELSE TokenResponse(r.token[1]))
    /\ UNCHANGED <<store, cache, mut, pc, sched, cfgGen, retGen, fin, fout, fn, refresh, now>>

\* mockExchangeConfig.Refresh
Refresh(t) ==
    /\ Len(calls) < MaxCalls
    /\ IF t.RefreshToken = "" \/ fn = NilFunc
       THEN /\ last' = Returned("refresh", t, TokenResponse(t))
            /\ UNCHANGED <<count, calls>>
       ELSE IF t.RefreshToken \notin DOMAIN refresh
       THEN /\ last' = Returned("refresh", t, TokenResponse(t))
            /\ UNCHANGED <<count, calls>>
       ELSE IF Valid(t, now)
       THEN /\ last' = Returned("refresh", t, TokenResponse(t))
            /\ UNCHANGED <<count, calls>>
       ELSE LET r == Call(fn, refresh[t.RefreshToken], count, now)
            IN /\ calls' = Append(calls, refresh[t.RefreshToken])
               /\ count' = r.n
               /\ last' = Returned("refresh", t,
                                   IF r.err # <<>> THEN FatalError(r.err)
                                   ELSE TokenResponse(r.token[1]))
    /\ UNCHANGED <<store, cache, mut, pc, sched, cfgGen, retGen, fin, fout, fn, refresh, now>>

\* Time passes.
Tick ==
    /\ now < MaxTicks * TickSeconds
    /\ now' = now + TickSeconds
    /\ UNCHANGED <<store, cache, mut, pc, sched, cfgGen, retGen, last, fin, fout,
                   fn, count, calls, refresh>>

NextExchange ==
    \/ \E code \in Codes : Exchange(code)
    \/ \E t \in HeldTokens : Refresh(t)
    \/ Tick

SpecExchange == InitExchange /\ [][NextExchange]_vars

----------------------------------------------------------------------------
(* Properties of the config manager *)

StoredConfig == ReadConfig(store)

InFlight == \E t \in Threads : pc[t].loc # "idle"

\* The five tuning constraints as the design document lists them.
TuningConstraints(t) ==
    /\ t.ProviderTimeoutExpiryLeewayFactor >= FactorOne
    /\ t.RefreshExpiryDeltaFactor >= FactorOne
    /\ t.RefreshCheckIntervalSeconds <= RefreshCheckIntervalMax
    /\ t.ReapCheckIntervalSeconds <= ReapCheckIntervalMax
    /\ t.ReapTransientErrorAttempts >= 0

OnEveryBound(t) ==
    /\ t.ProviderTimeoutExpiryLeewayFactor = FactorOne
    /\ t.RefreshExpiryDeltaFactor = FactorOne
    /\ t.RefreshCheckIntervalSeconds = RefreshCheckIntervalMax
    /\ t.ReapCheckIntervalSeconds = ReapCheckIntervalMax
    /\ t.ReapTransientErrorAttempts = 0

Buildable(req) ==
    /\ req.client_id # <<>>
    /\ req.provider # <<>>
    /\ \E o \in RegistryNew(req.provider[1], req.provider_options) : o.err = ""

\* The requests of which the step can be thread t's config update: the one an
\* early return reports, or those that give the entry the step wrote.
StepRequest(t) ==
    IF pc[t].loc # "idle" THEN {}
    ELSE IF cfgGen' = cfgGen
    THEN {r \in UpdateRequests : <<r>> = last'.req}
    ELSE IF ReadConfig(store') = <<>> THEN {}
    ELSE {r \in UpdateRequests :
            /\ r.client_id = <<store'[ConfigKey].ClientID>>
            /\ r.provider = <<store'[ConfigKey].ProviderName>>
            /\ r.auth_url_params = store'[ConfigKey].AuthURLParams
            /\ r.tuning = store'[ConfigKey].Tuning}

\* The step wrote a ConfigEntry carrying the request's client and tuning.
WroteEntryFor(req) ==
    /\ cfgGen' = cfgGen + 1
    /\ ReadConfig(store') # <<>>
    /\ store'[ConfigKey].ClientID = req.client_id[1]
    /\ store'[ConfigKey].Tuning = req.tuning

\* C1: a config update with a client_id and a buildable provider (and a Store
\* that takes the write) writes the ConfigEntry if and only if the five
\* tuning constraints hold; values exactly on a bound are accepted.
C1_AcceptedIffTuningValid ==
    [][\A t \in Threads : \A req \in StepRequest(t) :
        (Buildable(req) /\ ConfigUpdate(t, req, TRUE))
            => (WroteEntryFor(req) <=> TuningConstraints(req.tuning))]_vars

C1_Witness ==
    /\ StoredConfig # <<>>
    /\ OnEveryBound(StoredConfig[1].Tuning)
    /\ last = Done("config_update", NilResponse)

UserError(req) ==
    \/ req.client_id = <<>>
    \/ req.provider = <<>>
    \/ req.provider[1] \notin DOMAIN Registry
    \/ \E o \in RegistryNew(req.provider[1], req.provider_options) : o.err = "OptionError"
    \/ ~TuningConstraints(req.tuning)

\* C2: a config update that ends in a user error answers with an error
\* response (not a fatal error) and changes neither the Store, nor the
\* cache, nor the schedulers; it does not enter reset.
C2_UserErrorChangesNothing ==
    [][\A t \in Threads, ok \in BOOLEAN : \A req \in StepRequest(t) :
        (UserError(req) /\ ConfigUpdate(t, req, ok))
            => /\ last'.op = "config_update"
               /\ last'.resp.kind = "error_response"
               /\ store' = store
               /\ cache' = cache
               /\ sched' = sched
               /\ pc' = pc
               /\ mut' = mut]_vars

C2_Witness ==
    /\ last.op = "config_update"
    /\ last.resp = ErrorResponse(<<"refresh check interval can be at most 90 days">>)
    /\ StoredConfig # <<>>
    /\ cache # <<>>
    /\ sched["refresh"].state = "sleeping"
    /\ sched["reap"].state = "sleeping"

\* C3: once a config update has returned and no other update or delete is
\* under way, a config read returns exactly the fields of the ConfigEntry in
\* the Store.
C3_ReadReturnsWrittenEntry ==
    [][(ConfigRead /\ ~InFlight /\ StoredConfig # <<>>)
        => last'.resp = DataResponse(ReadFields(StoredConfig[1]))]_vars

\* C4: a scheduler never writes to the Store once an update or delete of a
\* later ConfigEntry generation than its own has returned.
C4_NoWriteFromOldScheduler ==
    [][\A k \in Kinds :
        (SchedFinish(k) /\ store' # store) => sched[k].gen >= retGen]_vars

C4_Witness ==
    /\ last.op = "sched_refresh"
    /\ retGen >= 2
    /\ \E n \in Names : CredKey(n) \in DOMAIN store /\ store[CredKey(n)].refreshes > 0

\* A request handler or a scheduler iteration obtains the cached bundle.
ObtainsBundle ==
    /\ cache' # <<>>
    /\ \/ ConfigRead
       \/ \E req \in URLRequests : ConfigAuthCodeURL(req)
       \/ \E n \in Names : CredWrite(n)
       \/ \E k \in Kinds, n \in Names : SchedBegin(k, n)

\* C5 as claimed: whenever a handler or scheduler iteration obtains the
\* cached bundle, also between an update's or delete's Store write and its
\* reset, the bundle's config is the ConfigEntry in the Store.
C5_NeverStale ==
    [][ObtainsBundle => StoredConfig = <<cache'[1].Config>>]_vars

\* C5 as amended: the same, whenever no config update or delete is between
\* its Store write and the end of its reset.
C5_FreshOutsideWindow ==
    [][(ObtainsBundle /\ ~InFlight) => StoredConfig = <<cache'[1].Config>>]_vars

C5_Witness ==
    /\ last.op = "config_read"
    /\ last.resp.kind = "data"
    /\ retGen >= 2
    /\ ~InFlight
    /\ StoredConfig # <<>>
    /\ last.resp.data[1].client_id = "baz"

\* A step of a config delete: the Store delete or one of the steps of reset.
DeleteStep ==
    \/ \E t \in Threads, ok \in BOOLEAN : ConfigDelete(t, ok)
    \/ \E t \in Threads : pc[t].op = "config_delete" /\ (ResetBegin(t) \/ ResetEnd(t))

\* C6: no step of a config delete changes the set of stored credentials or
\* the content of any of them.
C6_DeleteKeepsCredentials ==
    [][DeleteStep => Creds(store') = Creds(store)]_vars

C6_Witness ==
    /\ last = Done("config_delete", NilResponse)
    /\ StoredConfig = <<>>
    /\ DOMAIN Creds(store) # {}

\* C7: the Store never holds more than one ConfigEntry; while it holds none
\* and no update or delete is under way, config read answers empty without
\* an error and config/auth_code_url answers "not configured".
C7_SingleEntryAndPurge ==
    [][/\ Cardinality({k \in DOMAIN store' : k[1] = "config"}) <= 1
       /\ (StoredConfig = <<>> /\ ~InFlight /\ ConfigRead) => last'.resp = NilResponse
       /\ \A req \in URLRequests :
            (StoredConfig = <<>> /\ ~InFlight /\ ConfigAuthCodeURL(req))
                => last'.resp = ErrorResponse(<<"not configured">>)]_vars

C7_Witness ==
    /\ last = Done("auth_code_url", ErrorResponse(<<"not configured">>))
    /\ StoredConfig = <<>>
    /\ retGen >= 2
    /\ ~InFlight

\* C8: every ConfigEntry a config update writes carries the version of the
\* provider registered under the request's provider name, and the latest
\* config schema version.
C8_ProviderVersionPinned ==
    [][\A t \in Threads : \A req \in StepRequest(t) :
        (ConfigUpdate(t, req, TRUE) /\ cfgGen' = cfgGen + 1)
            => /\ store'[ConfigKey].ProviderName = req.provider[1]
               /\ store'[ConfigKey].ProviderVersion = Registry[req.provider[1]].vsn
               /\ store'[ConfigKey].Version = ConfigVersionLatest]_vars

C8_Witness ==
    /\ StoredConfig # <<>>
    /\ StoredConfig[1].ProviderName = "mockopt"
    /\ StoredConfig[1].ProviderVersion = 2

----------------------------------------------------------------------------
(* Properties of config read and the client secret *)

\* The Store and the cache of the state that differs only in client_secret.
StoreWithSecret(st, sec) ==
    [k \in DOMAIN st |-> IF k = ConfigKey THEN [st[k] EXCEPT !.ClientSecret = sec] ELSE st[k]]

CacheWithSecret(ch, sec) ==
    IF ch = <<>> THEN ch ELSE <<[ch[1] EXCEPT !.Config.ClientSecret = sec]>>

\* No field of the response data is named client_secret or holds the value.
NoFieldCarries(d, sec) ==
    /\ "client_secret" \notin DOMAIN d
    /\ d.client_id # sec
    /\ d.provider # sec
    /\ \A f \in {"auth_url_params", "provider_options"} :
        \A k \in DOMAIN d[f] : k # sec /\ d[f][k] # sec

\* C14: the response of a config read is one the same read gives in the state
\* that differs only in client_secret, whatever that secret is, and no field
\* of the response carries the client_secret of the config read.
C14_ReadHidesClientSecret ==
    [][ConfigRead =>
        /\ \A sec \in Secrets :
            last'.resp \in {ReadResponse(r) :
                r \in GetCache(CacheWithSecret(cache, sec), StoreWithSecret(store, sec))}
        /\ last'.resp.kind = "data" =>
            NoFieldCarries(last'.resp.data[1], cache'[1].Config.ClientSecret)]_vars

\* A read of the config whose entry was written with secret "bar" and then
\* again with secret "qux".
C14_Witness ==
    /\ last.op = "config_read"
    /\ last.resp.kind = "data"
    /\ last.resp.data[1].client_id = "foo"
    /\ cache # <<>>
    /\ cache[1].Config.ClientSecret = "qux"
    /\ StoredConfig # <<>>
    /\ StoredConfig[1].ClientSecret = "qux"
    /\ cfgGen >= 2
    /\ ~InFlight

----------------------------------------------------------------------------
(* Properties of config/auth_code_url *)

Pairs(q) == {<<k, q[k]>> : k \in DOMAIN q}

\* The five standard parameters of a request made for client id `clientID`.
StandardPairs(clientID, req) ==
    {<<"response_type", "code">>, <<"client_id", clientID>>,
     <<"redirect_uri", req.redirect_url>>, <<"state", req.state[1]>>,
     <<"scope", JoinScopes(req.scopes)>>}

\* The step answers `req` with a URL.
AnswersURL(req) == ConfigAuthCodeURL(req) /\ last'.resp.kind = "data"

----------------------------------------------------------------------------
(* Properties of the mock exchange configuration *)

\* An exchange returns the token the exchange function issued for the code,
\* or the error of the failed call and no token.
ExchangeReturnsIssued ==
    \A code \in Codes : Exchange(code) =>
        IF last'.resp.kind = "token"
        THEN /\ calls' = Append(calls, code)
             /\ last'.resp.data = Call(fn, code, count, now).token
        ELSE /\ last'.resp.kind = "error"
             /\ last'.resp.data = <<>>

\* The refresh calls the exchange function once and returns the token newly
\* issued, or the error of the failed call and no token.
ReturnsNewlyIssued(t) ==
    /\ Len(calls') = Len(calls) + 1
    /\ t.RefreshToken \in DOMAIN refresh =>
        /\ calls'[Len(calls')] = refresh[t.RefreshToken]
        /\ IF last'.resp.kind = "token"
           THEN last'.resp.data = Call(fn, refresh[t.RefreshToken], count, now).token
           ELSE /\ last'.resp.kind = "error"
                /\ last'.resp.data = <<>>

ReturnsSame(t) ==
    /\ last'.resp = TokenResponse(t)
    /\ calls' = calls

\* C13 as stated: an exchange returns the issued token; a refresh of a token
\* that has a refresh token and is no longer valid calls the exchange function
\* and returns the newly issued token, which is valid; a refresh of any other
\* token returns it unchanged without a call; a failed call gives an error
\* and no token.
C13_ExchangeThenRefresh ==
    [][/\ ExchangeReturnsIssued
       /\ \A t \in HeldTokens : Refresh(t) =>
            IF t.RefreshToken # "" /\ ~Valid(t, now)
            THEN /\ ReturnsNewlyIssued(t)
                 /\ last'.resp.kind = "token" => Valid(last'.resp.data[1], now)
            ELSE ReturnsSame(t)]_vars

\* C13, amended: an exchange returns the issued token; a refresh of a token
\* that is no longer valid and whose refresh token an earlier exchange of the
\* mock has issued calls the exchange function with the code of that exchange
\* and returns the newly issued token, which is valid exactly when it was
\* issued to expire ExpiryDelta seconds or more ahead; a refresh of any other
\* token (valid, without refresh token, with a refresh token the mock has not
\* issued, or of a client without exchange function) returns it unchanged
\* without a call; a failed call gives an error and no token.
C13_RefreshOfIssuedToken ==
    [][/\ ExchangeReturnsIssued
       /\ \A t \in HeldTokens : Refresh(t) =>
            IF /\ t.RefreshToken \in DOMAIN refresh
               /\ fn # NilFunc
               /\ ~Valid(t, now)
            THEN /\ ReturnsNewlyIssued(t)
                 /\ last'.resp.kind = "token" =>
                        (Valid(last'.resp.data[1], now)
                            <=> last'.resp.data[1].Expiry[1] >= now + ExpiryDelta)
            ELSE ReturnsSame(t)]_vars

\* The token tok1 issued for 5 seconds has been refreshed: the exchange
\* function was called again with the code, and tok2, valid, came back.
C13_Witness ==
    /\ last.op = "refresh"
    /\ last.req[1].AccessToken = <<"tok", 1>>
    /\ last.req[1].RefreshToken = "efgh"
    /\ ~Valid(last.req[1], now)
    /\ calls = <<"123456", "123456">>
    /\ last.resp.kind = "token"
    /\ last.resp.data[1].AccessToken = <<"tok", 2>>
    /\ Valid(last.resp.data[1], now)

----------------------------------------------------------------------------
(* Properties of the mock factory *)

\* C9: a factory call leaves the caller's options map as it was.
C9_FactoryLeavesOptions ==
    fout # <<>> => fout[1].options = fin.options

VersionAccepted == fin.vsn = VersionLatest \/ fin.vsn = fin.m.vsn

\* The key is declared and missing or wrong, or is not declared at all.
Offending(k) ==
    \/ /\ k \in DOMAIN fin.m.expectedOpts
       /\ k \notin DOMAIN fin.options \/ fin.options[k] # fin.m.expectedOpts[k]
    \/ k \in DOMAIN fin.options \ DOMAIN fin.m.expectedOpts

\* C10: for an accepted version, the build succeeds if and only if the
\* options are exactly the expected ones; otherwise it gives an OptionError
\* naming an offending key, and no provider.
C10_OptionsValidated ==
    (fout # <<>> /\ VersionAccepted) =>
        /\ fout[1].err = "" <=> fin.options = fin.m.expectedOpts
        /\ fout[1].err = "" => fout[1].provider = <<[owner |-> fin.m]>>
        /\ fout[1].err # "" =>
            /\ fout[1].err = "OptionError"
            /\ fout[1].provider = <<>>
            /\ Offending(fout[1].option)

C10_Witness ==
    /\ Len(fout) = 1
    /\ fin.m = MockOpt
    /\ fin.vsn = VersionLatest
    /\ fout[1].err = "OptionError"
    /\ fout[1].option = "z"
    /\ fout[1].message = <<"unexpected">>

\* C11: a mock factory of version v refuses every requested version other
\* than -1 and v with ErrNoProviderWithVersion, whatever the options are, and
\* never refuses -1 or v for its version; the provider it builds for -1 or v
\* (it builds one when the options are the expected ones) has Version() = v.
C11_VersionAcceptance ==
    \A i \in 1..Len(fout) :
        /\ ~VersionAccepted =>
            /\ fout[i].err = "ErrNoProviderWithVersion"
            /\ fout[i].provider = <<>>
        /\ VersionAccepted =>
            /\ fout[i].err # "ErrNoProviderWithVersion"
            /\ fout[i].provider # <<>> => Version(fout[i].provider[1]) = fin.m.vsn
            /\ (i = 1 /\ fin.options = fin.m.expectedOpts) => fout[i].provider # <<>>

\* A refusal of a version although the options are the expected ones, after a
\* mock of version 2 has been asked for version 1.
C11_Witness ==
    /\ Len(fout) = 1
    /\ fin.m = MockOpt
    /\ fin.vsn = 1
    /\ fin.options = MockOpt.expectedOpts
    /\ fout[1].err = "ErrNoProviderWithVersion"

====
